---------------------------- MODULE Spec2Model ----------------------------
(***************************************************************************)
(* Portfolio Navigator (ml/interface/streamlit_app.py).                    *)
(*                                                                         *)
(* A Streamlit script is re-run from its first line on every interaction   *)
(* of a browser session.  Each session runs the script in its own thread;  *)
(* all sessions share the working directory, hence the one file            *)
(* "temp_file.pdf".  A render is modelled as a sequence of steps, one per  *)
(* statement group of the script; every call to the external document-AI   *)
(* library (loader, parser, index, query engine) is one step that either   *)
(* returns or raises.  An index is represented by the file content it was  *)
(* built from, an answer by its question and the content of its index.     *)
(***************************************************************************)
EXTENDS Integers, Sequences, FiniteSets, TLC

\* ------------------------------------------------------------------ bounds
\* script runs on a server with several sessions, after their initial page loads
MaxRenders == 2
\* script runs of a session that is alone on the server, after its page load
MaxSoloRenders == 3
\* distinct PDF documents a session's user can pick
NumDocs == 2

Sessions == {"A", "B"}
\* texts the user can leave in the search box
Queries == {"", "q"}

\* ------------------------------------------------------- values of the model
\* Python None (the uploader holds no file)
None == <<"None", 0>>
\* the fixed path does not exist on disk
Missing == <<"ENOENT", 0>>
\* the i-th document of session s's user
Doc(s, i) == <<s, i>>
\* the path just opened "wb" by session s: truncated, nothing written yet
Truncated(s) == <<s, 0>>
DocsOf(s) == {Doc(s, i) : i \in 1..NumDocs}
Owner(c) == c[1]

TabNames == {"Overview", "General Information", "Risk Analysis", "Wirkungsmatrix",
             "Recommended Actions", "Suggestions"}

VARIABLES
  disk,                  \* content of ./temp_file.pdf, shared by all sessions
  fileWidget,            \* browser state of st.file_uploader, per session
  textWidget,            \* browser state of the "Search:" text input, per session
  session_state,         \* st.session_state['search_query'], per session
  uploaded_file,         \* script variable uploaded_file
  input_search_query,    \* script variable input_search_query
  pc,                    \* position of the session's script run
  processing_container,  \* text shown in processing_container
  tabs,                  \* answers rendered in each of the six tabs
  page,                  \* markdown written to the page body (line 252)
  answer_processing_container,  \* text shown in col2's status placeholder
  col2,                  \* markdown written to col2 after the placeholder
  query_index_,          \* local of display_information_once
  query_index,           \* script variable query_index (line 266)
  answer,                \* script variable answer (line 267)
  windex,                \* local index of wirkungsmatrix
  wirkungsdata,          \* wirkungsdata1..6 gathered so far
  issued,                \* history: battery questions sent in this render
  calls,                 \* history: index builds of this render (fn, by, path, read)
  wrote,                 \* history: path written by this render ("" if none)
  failedAt,              \* history: the call that raised in this render ("" if none)
  trigger,               \* history: the interaction that started this render
  prevFile,              \* history: the uploader's file in the previous render
  prevAnswered,          \* history: the previous render got an answer to the search
  renders                \* history: script runs started so far, all sessions

vars == <<disk, fileWidget, textWidget, session_state, uploaded_file, input_search_query,
          pc, processing_container, tabs, page, answer_processing_container, col2,
          query_index_, query_index, answer, windex, wirkungsdata, issued, calls,
          wrote, failedAt, trigger, prevFile, prevAnswered, renders>>

Upd(f, s, v) == [f EXCEPT ![s] = v]

\* a synthesized answer: the question asked, the content behind the index that
\* answered it, and its Python truth value
Answer(q, src, truthy) == [q |-> q, src |-> src, truthy |-> truthy]
\* a literal text written with st.markdown
Literal(text) == [q |-> text, src |-> None, truthy |-> TRUE]
\* one index build: the function, its caller, its path argument, the content read
Call(fn, by, path, read) == [fn |-> fn, by |-> by, path |-> path, read |-> read]

\* the script has not assigned answer
NoAnswer == [q |-> "<unset>", src |-> None, truthy |-> FALSE]

NoTabs == [t \in TabNames |-> <<>>]

\* ------------------------------------------------------------- the file system
temp_filepath == "temp_file.pdf"

ReadPath(path) == IF path = temp_filepath THEN disk ELSE Missing

\* open(temp_filepath, "wb"): the file exists and is empty
OpenWb(s, old) == Truncated(s)

\* f.write(uploaded_file.read()) and the close at the end of the with block
WriteBytes_Nothing(old, bytes) == old
WriteBytes(old, bytes) == bytes

\* ------------------------------------------------------------ external calls
\* the loader and the parser raise on a path that does not exist; every other
\* call may return or raise
CanLoad(content) == IF content = Missing THEN {FALSE} ELSE BOOLEAN
CanQuery == BOOLEAN

\* no try/except anywhere in the script: an exception ends the script run
Caught(resume) == resume
Uncaught(resume) == "crashed"

\* --------------------------------------------------- display_information_once
file_path == "temp_file.pdf"

display_information_once_swapped ==
  <<"create_index", "overview_report", "risk_analysis", "key_value_pairs",
    "wirkungsmatrix", "next_steps", "recommended_fields_generation", "complete">>
\* the statements of display_information_once, in program order
display_information_once_body ==
  <<"create_index", "overview_report", "key_value_pairs", "risk_analysis",
    "wirkungsmatrix", "next_steps", "recommended_fields_generation", "complete">>

\* the statement that follows the call of fn
Return(fn) ==
  LET body == display_information_once_body
      i == CHOOSE k \in 1..Len(body) : body[k] = fn
  IN  body[i + 1]

\* lines 212-240 of a script run: the page is laid out anew, the widgets hand
\* their browser state to the script; a keyed widget's value is also the value
\* of st.session_state[key]
NewTabs_Stale(old) == old
NewTabs(old) == NoTabs

RunScriptTop(s, file, text, trig, budget) ==
  /\ pc[s] \in {"done", "crashed"}
  /\ renders < budget
  /\ renders' = renders + 1
  /\ trigger' = Upd(trigger, s, trig)
  /\ prevFile' = Upd(prevFile, s, fileWidget[s])
  /\ prevAnswered' = Upd(prevAnswered, s, answer[s] # NoAnswer)
  /\ fileWidget' = Upd(fileWidget, s, file)
  /\ textWidget' = Upd(textWidget, s, text)
  /\ uploaded_file' = Upd(uploaded_file, s, file)
  /\ input_search_query' = Upd(input_search_query, s, text)
  /\ session_state' = Upd(session_state, s, text)
  /\ processing_container' = Upd(processing_container, s, " ")
  /\ tabs' = Upd(tabs, s, NewTabs(tabs[s]))
  /\ page' = Upd(page, s, <<>>)
  /\ answer_processing_container' = Upd(answer_processing_container, s, "")
  /\ col2' = Upd(col2, s, <<>>)
  /\ query_index_' = Upd(query_index_, s, None)
  /\ query_index' = Upd(query_index, s, None)
  /\ answer' = Upd(answer, s, NoAnswer)
  /\ windex' = Upd(windex, s, None)
  /\ wirkungsdata' = Upd(wirkungsdata, s, <<>>)
  /\ issued' = Upd(issued, s, <<>>)
  /\ calls' = Upd(calls, s, <<>>)
  /\ wrote' = Upd(wrote, s, "")
  /\ failedAt' = Upd(failedAt, s, "")
  /\ pc' = Upd(pc, s, "L242")
  /\ UNCHANGED disk

\* the interactions that make Streamlit run the script again
UserUploads(s, d, budget) ==
  /\ d # fileWidget[s]
  /\ RunScriptTop(s, d, textWidget[s], "upload", budget)

UserClearsFile(s, budget) ==
  /\ fileWidget[s] # None
  /\ RunScriptTop(s, None, textWidget[s], "clear", budget)

UserEditsSearch(s, q, budget) ==
  /\ q # textWidget[s]
  /\ RunScriptTop(s, fileWidget[s], q, "search", budget)

UserReruns(s, budget) ==
  /\ RunScriptTop(s, fileWidget[s], textWidget[s], "rerun", budget)

scriptVars == <<fileWidget, textWidget, trigger, prevFile, prevAnswered, renders>>

\* lines 242-244: open(temp_filepath, "wb")
UploadOpen(s) ==
  /\ pc[s] = "L242"
  /\ uploaded_file[s] # None
  /\ disk' = OpenWb(s, disk)
  /\ pc' = Upd(pc, s, "write")
  /\ UNCHANGED <<scriptVars, answer, session_state, uploaded_file, input_search_query,
                 processing_container, tabs, page, answer_processing_container, col2,
                 query_index_, query_index, windex, wirkungsdata, issued, calls, wrote,
                 failedAt>>

\* lines 245-246: the bytes are written, the file closed, "File uploaded..." shown
UploadWrite(s) ==
  /\ pc[s] = "write"
  /\ disk' = WriteBytes(disk, uploaded_file[s])
  /\ wrote' = Upd(wrote, s, temp_filepath)
  /\ processing_container' = Upd(processing_container, s, "File uploaded...")
  /\ pc' = Upd(pc, s, "display_information_once")
  /\ UNCHANGED <<scriptVars, answer, session_state, uploaded_file, input_search_query,
                 tabs, page, answer_processing_container, col2,
                 query_index_, query_index, windex, wirkungsdata, issued, calls,
                 failedAt>>

\* lines 251-252: no file in the uploader
NoUpload(s) ==
  /\ pc[s] = "L242"
  /\ uploaded_file[s] = None
  /\ page' = Upd(page, s, <<Literal("Please upload a PDF file.")>>)
  /\ pc' = Upd(pc, s, "L255")
  /\ UNCHANGED <<scriptVars, answer, disk, session_state, uploaded_file, input_search_query,
                 processing_container, tabs, answer_processing_container, col2,
                 query_index_, query_index, windex, wirkungsdata, issued, calls, wrote,
                 failedAt>>

\* lines 247-249 and 194-198: after the sleep, "Processing...", then
\* display_information_once is entered and shows "Creating Index..."
display_information_once(s) ==
  /\ pc[s] = "display_information_once"
  /\ IF uploaded_file[s] # None
       THEN /\ processing_container' = Upd(processing_container, s, "Creating Index...")
            /\ pc' = Upd(pc, s, display_information_once_body[1])
       ELSE /\ processing_container' = Upd(processing_container, s, "Processing...")
            /\ pc' = Upd(pc, s, "L255")
  /\ UNCHANGED <<scriptVars, answer, disk, session_state, uploaded_file, input_search_query,
                 tabs, page, answer_processing_container, col2,
                 query_index_, query_index, windex, wirkungsdata, issued, calls, wrote,
                 failedAt>>

\* lines 199 and 29-34: create_index(file_path)
create_index(s) ==
  /\ pc[s] = "create_index"
  /\ calls' = Upd(calls, s, Append(calls[s],
                 Call("create_index", "display_information_once", file_path,
                      ReadPath(file_path))))
  /\ \E ok \in CanLoad(ReadPath(file_path)) :
       IF ok
         THEN /\ query_index_' = Upd(query_index_, s, ReadPath(file_path))
              /\ pc' = Upd(pc, s, Return("create_index"))
              /\ UNCHANGED failedAt
         ELSE /\ pc' = Upd(pc, s, Uncaught(Return("create_index")))
              /\ failedAt' = Upd(failedAt, s, "create_index")
              /\ UNCHANGED query_index_
  /\ UNCHANGED <<scriptVars, answer, disk, session_state, uploaded_file, input_search_query,
                 processing_container, tabs, page, answer_processing_container, col2,
                 query_index, windex, wirkungsdata, issued, wrote>>

\* one of the five general question functions: status text, one query against
\* the primary index, the answer rendered in the function's tab
GeneralQuestion(s, fn, statusText, q, tab) ==
  /\ pc[s] = fn
  /\ processing_container' = Upd(processing_container, s, statusText)
  /\ issued' = Upd(issued, s, Append(issued[s], q))
  /\ \E ok \in CanQuery :
       IF ok
         THEN /\ tabs' = Upd(tabs, s, [tabs[s] EXCEPT
                             ![tab] = Append(@, Answer(q, query_index_[s], TRUE))])
              /\ pc' = Upd(pc, s, Return(fn))
              /\ UNCHANGED failedAt
         ELSE /\ pc' = Upd(pc, s, Uncaught(Return(fn)))
              /\ failedAt' = Upd(failedAt, s, q)
              /\ UNCHANGED tabs
  /\ UNCHANGED <<scriptVars, answer, disk, session_state, uploaded_file, input_search_query,
                 page, answer_processing_container, col2,
                 query_index_, query_index, windex, wirkungsdata, calls, wrote>>

overview_report(s) ==
  GeneralQuestion(s, "overview_report", "Generating Overview...", "overview", "Overview")

key_value_pairs(s) ==
  GeneralQuestion(s, "key_value_pairs", "Extracting KURZBESCHREIBUNG...", "key_value",
                  "General Information")

risk_analysis(s) ==
  GeneralQuestion(s, "risk_analysis", "Analysing Risks...", "risk", "Risk Analysis")

next_steps(s) ==
  GeneralQuestion(s, "next_steps", "Recommending Actions...", "next_steps",
                  "Recommended Actions")

recommended_fields_generation(s) ==
  GeneralQuestion(s, "recommended_fields_generation", "Almost done...",
                  "recommended_fields", "Suggestions")

\* ------------------------------------------------------------- wirkungsmatrix
WQuestions == <<"w1", "w2", "w3", "w4", "w5", "w6">>

\* lines 104-112: the specialized parser reads file_path, a second index is built
wirkungsmatrix(s) ==
  /\ pc[s] = "wirkungsmatrix"
  /\ calls' = Upd(calls, s, Append(calls[s],
                 Call("LlamaParse.load_data", "wirkungsmatrix", file_path,
                      ReadPath(file_path))))
  /\ \E ok \in CanLoad(ReadPath(file_path)) :
       IF ok
         THEN /\ windex' = Upd(windex, s, ReadPath(file_path))
              /\ processing_container' =
                   Upd(processing_container, s, "Gathering Insights from Wirkungsmatrix...")
              /\ pc' = Upd(pc, s, "wirkungsdata")
              /\ UNCHANGED failedAt
         ELSE /\ processing_container' =
                   Upd(processing_container, s, "Extracting Wirkungsmatrix...")
              /\ pc' = Upd(pc, s, Uncaught("wirkungsdata"))
              /\ failedAt' = Upd(failedAt, s, "wirkungsmatrix")
              /\ UNCHANGED windex
  /\ UNCHANGED <<scriptVars, answer, disk, session_state, uploaded_file, input_search_query,
                 tabs, page, answer_processing_container, col2,
                 query_index_, query_index, wirkungsdata, issued, wrote>>

\* lines 114-142: wirkungsdata1 .. wirkungsdata6, one query each, kept in locals
wirkungsdata_query(s) ==
  LET k == Len(wirkungsdata[s]) + 1
      after == IF k = Len(WQuestions) THEN "w_tab" ELSE "wirkungsdata"
  IN
  /\ pc[s] = "wirkungsdata"
  /\ k <= Len(WQuestions)
  /\ issued' = Upd(issued, s, Append(issued[s], WQuestions[k]))
  /\ \E ok \in CanQuery :
       IF ok
         THEN /\ wirkungsdata' = Upd(wirkungsdata, s,
                   Append(wirkungsdata[s], Answer(WQuestions[k], windex[s], TRUE)))
              /\ processing_container' =
                   IF k = 3 THEN Upd(processing_container, s, "Halfway there...")
                            ELSE processing_container
              /\ pc' = Upd(pc, s, after)
              /\ UNCHANGED failedAt
         ELSE /\ pc' = Upd(pc, s, Uncaught(after))
              /\ failedAt' = Upd(failedAt, s, WQuestions[k])
              /\ UNCHANGED <<wirkungsdata, processing_container>>
  /\ UNCHANGED <<scriptVars, answer, disk, session_state, uploaded_file, input_search_query,
                 tabs, page, answer_processing_container, col2,
                 query_index_, query_index, windex, calls, wrote>>

\* lines 143-150: what is written into w_tab
WTabContent_DropLast(wd) == <<wd[1], wd[2], wd[3], wd[4], wd[5]>>
WTabContent(wd) == <<wd[1], wd[2], wd[3], wd[4], wd[5], wd[6]>>

\* lines 143-151: the six answers are rendered in w_tab, the function returns
w_tab(s) ==
  /\ pc[s] = "w_tab"
  /\ tabs' = Upd(tabs, s, [tabs[s] EXCEPT
                 !["Wirkungsmatrix"] = @ \o WTabContent(wirkungsdata[s])])
  /\ windex' = Upd(windex, s, None)
  /\ wirkungsdata' = Upd(wirkungsdata, s, <<>>)
  /\ pc' = Upd(pc, s, Return("wirkungsmatrix"))
  /\ UNCHANGED <<scriptVars, answer, disk, session_state, uploaded_file, input_search_query,
                 processing_container, page, answer_processing_container, col2,
                 query_index_, query_index, issued, calls, wrote, failedAt>>

\* line 209: the last status of display_information_once, which then returns
complete(s) ==
  /\ pc[s] = "complete"
  /\ processing_container' = Upd(processing_container, s, "Processing complete!")
  /\ query_index_' = Upd(query_index_, s, None)
  /\ pc' = Upd(pc, s, "L255")
  /\ UNCHANGED <<scriptVars, answer, disk, session_state, uploaded_file, input_search_query,
                 tabs, page, answer_processing_container, col2,
                 query_index, windex, wirkungsdata, issued, calls, wrote, failedAt>>

\* ------------------------------------------------------------- the search box
filepath_Other == "temp.pdf"
filepath == "temp_file.pdf"

\* line 260: the search runs whenever the stored text is truthy
SearchRuns(text, trig) == text # ""

\* lines 254-260: the session state is brought up to date, then tested
search_update(s) ==
  LET changed == input_search_query[s] # session_state[s]
      stored == IF changed THEN input_search_query[s] ELSE session_state[s]
  IN
  /\ pc[s] = "L255"
  /\ uploaded_file' = IF changed THEN Upd(uploaded_file, s, None) ELSE uploaded_file
  /\ session_state' = Upd(session_state, s, stored)
  /\ pc' = Upd(pc, s, IF SearchRuns(stored, trigger[s]) THEN "search" ELSE "done")
  /\ UNCHANGED <<scriptVars, answer, disk, input_search_query,
                 processing_container, tabs, page, answer_processing_container, col2,
                 query_index_, query_index, windex, wirkungsdata, issued, calls, wrote,
                 failedAt>>

\* lines 261-266: "Processing request...", then create_index(filepath)
search_create_index_reuse(s) ==
  /\ pc[s] = "search"
  /\ answer_processing_container' =
       Upd(answer_processing_container, s, "Processing request...")
  /\ query_index' = Upd(query_index, s, query_index_[s])
  /\ pc' = Upd(pc, s, "user_query_answer")
  /\ UNCHANGED <<scriptVars, answer, disk, session_state, uploaded_file, input_search_query,
                 processing_container, tabs, page, col2,
                 query_index_, windex, wirkungsdata, issued, calls, wrote, failedAt>>
search_create_index(s) ==
  /\ pc[s] = "search"
  /\ answer_processing_container' =
       Upd(answer_processing_container, s, "Processing request...")
  /\ calls' = Upd(calls, s, Append(calls[s],
                 Call("create_index", "search", filepath, ReadPath(filepath))))
  /\ \E ok \in CanLoad(ReadPath(filepath)) :
       IF ok
         THEN /\ query_index' = Upd(query_index, s, ReadPath(filepath))
              /\ pc' = Upd(pc, s, "user_query_answer")
              /\ UNCHANGED failedAt
         ELSE /\ pc' = Upd(pc, s, Uncaught("user_query_answer"))
              /\ failedAt' = Upd(failedAt, s, "search_create_index")
              /\ UNCHANGED query_index
  /\ UNCHANGED <<scriptVars, answer, disk, session_state, uploaded_file, input_search_query,
                 processing_container, tabs, page, col2,
                 query_index_, windex, wirkungsdata, issued, wrote>>

\* lines 268-273: what the answer makes the page show
ShowAnswer_Unchecked(container, a) ==
  [container |-> "Found results!", markdown |-> a]
ShowAnswer(container, a) ==
  IF a.truthy
    THEN [container |-> "Found results!", markdown |-> a]
    ELSE [container |-> container,
          markdown |-> Literal("No answer found for your query.")]

\* lines 267-273 and 185-191: the user's question is put to query_index
user_query_answer(s) ==
  /\ pc[s] = "user_query_answer"
  /\ \/ \E truthy \in BOOLEAN :
          LET a == Answer(session_state[s], query_index[s], truthy)
              shown == ShowAnswer(answer_processing_container[s], a)
          IN  /\ answer' = Upd(answer, s, a)
              /\ answer_processing_container' =
                   Upd(answer_processing_container, s, shown.container)
              /\ col2' = Upd(col2, s, Append(col2[s], shown.markdown))
              /\ pc' = Upd(pc, s, "done")
              /\ UNCHANGED failedAt
     \/ /\ pc' = Upd(pc, s, Uncaught("done"))
        /\ failedAt' = Upd(failedAt, s, "user_query_answer")
        /\ UNCHANGED <<answer, answer_processing_container, col2>>
  /\ UNCHANGED <<scriptVars, disk, session_state, uploaded_file, input_search_query,
                 processing_container, tabs, page,
                 query_index_, query_index, windex, wirkungsdata, issued, calls, wrote>>

\* ------------------------------------------------------------ specifications
\* every session has loaded the page once: no file, no search text, no temp file
Init ==
  /\ disk = Missing
  /\ fileWidget = [s \in Sessions |-> None]
  /\ textWidget = [s \in Sessions |-> ""]
  /\ session_state = [s \in Sessions |-> ""]
  /\ uploaded_file = [s \in Sessions |-> None]
  /\ input_search_query = [s \in Sessions |-> ""]
  /\ pc = [s \in Sessions |-> "done"]
  /\ processing_container = [s \in Sessions |-> " "]
  /\ tabs = [s \in Sessions |-> NoTabs]
  /\ page = [s \in Sessions |-> <<Literal("Please upload a PDF file.")>>]
  /\ answer_processing_container = [s \in Sessions |-> ""]
  /\ col2 = [s \in Sessions |-> <<>>]
  /\ query_index_ = [s \in Sessions |-> None]
  /\ query_index = [s \in Sessions |-> None]
  /\ answer = [s \in Sessions |-> NoAnswer]
  /\ windex = [s \in Sessions |-> None]
  /\ wirkungsdata = [s \in Sessions |-> <<>>]
  /\ issued = [s \in Sessions |-> <<>>]
  /\ calls = [s \in Sessions |-> <<>>]
  /\ wrote = [s \in Sessions |-> ""]
  /\ failedAt = [s \in Sessions |-> ""]
  /\ trigger = [s \in Sessions |-> "load"]
  /\ prevFile = [s \in Sessions |-> None]
  /\ prevAnswered = [s \in Sessions |-> FALSE]
  /\ renders = 0

\* an interaction of the user of session s, while the bound allows a script run
Interaction(s, budget) ==
  \/ \E d \in DocsOf(s) : UserUploads(s, d, budget)
  \/ UserClearsFile(s, budget)
  \/ \E q \in Queries : UserEditsSearch(s, q, budget)
  \/ UserReruns(s, budget)

\* the next step of the script run of session s
ScriptStep(s) ==
  \/ UploadOpen(s)
  \/ UploadWrite(s)
  \/ NoUpload(s)
  \/ display_information_once(s)
  \/ create_index(s)
  \/ overview_report(s)
  \/ key_value_pairs(s)
  \/ risk_analysis(s)
  \/ wirkungsmatrix(s)
  \/ wirkungsdata_query(s)
  \/ w_tab(s)
  \/ next_steps(s)
  \/ recommended_fields_generation(s)
  \/ complete(s)
  \/ search_update(s)
  \/ search_create_index(s)
  \/ user_query_answer(s)

\* all sessions of the server, their script runs interleaved step by step
Next ==
  \E s \in Sessions :
    \/ Interaction(s, MaxRenders)
    \/ ScriptStep(s)
Spec == Init /\ [][Next]_vars

\* one browser session alone on the server
SoloSession == "A"
SoloNext ==
  \/ Interaction(SoloSession, MaxSoloRenders)
  \/ ScriptStep(SoloSession)
SpecSolo == Init /\ [][SoloNext]_vars

\* ===================================================================== claims
IsPrefix(a, b) == Len(a) <= Len(b) /\ \A i \in 1..Len(a) : a[i] = b[i]
Range(f) == {f[i] : i \in DOMAIN f}

\* the battery as the specification lists it
FixedOrder ==
  <<"overview", "key_value", "risk", "w1", "w2", "w3", "w4", "w5", "w6",
    "next_steps", "recommended_fields">>
TabOrder ==
  <<"Overview", "General Information", "Risk Analysis", "Wirkungsmatrix",
    "Recommended Actions", "Suggestions">>

\* every answer the page of session s shows
Shown(s) ==
  UNION {Range(tabs[s][tab]) : tab \in TabNames}
    \cup {m \in Range(col2[s]) : m.q = session_state[s]}
\* the index builds of the battery, and those of the search box
BatteryCalls(s) == {c \in Range(calls[s]) : c.by # "search"}
SearchCalls(s) == {c \in Range(calls[s]) : c.by = "search"}
CreateIndexCalls(s) == {i \in 1..Len(calls[s]) : calls[s][i].fn = "create_index"}
Populated(s) == {tab \in TabNames : tabs[s][tab] # <<>>}
FirstTabs(n) == {TabOrder[i] : i \in 1..n}

\* C1: in every render the battery questions sent so far are a prefix of
\* overview, key-value pairs, risk analysis, impact-matrix questions 1..6, next
\* steps, recommended fields, whatever the document and the answers; a battery
\* that ran to "Processing complete!" sent exactly that sequence
C1_FixedOrder ==
  \A s \in Sessions :
    /\ IsPrefix(issued[s], FixedOrder)
    /\ processing_container[s] = "Processing complete!" => issued[s] = FixedOrder
    /\ fileWidget[s] = None => issued[s] = <<>>

\* C1 witness: a render with a file has sent the whole battery and ended
C1_Witness ==
  \E s \in Sessions :
    /\ fileWidget[s] # None
    /\ issued[s] = FixedOrder
    /\ pc[s] = "done"

\* C2: with one session on the server, in the render of a second upload (the
\* uploader held another file in the previous render) the temp path holds the
\* second file once written, every index built in that render (primary,
\* specialized, ad-hoc) is built from the second file, and nothing shown derives
\* from the first file
C2_SecondUploadOnly ==
  \A s \in Sessions :
    (trigger[s] = "upload" /\ prevFile[s] # None) =>
      /\ wrote[s] # "" => disk = fileWidget[s]
      /\ calls[s] # <<>> => wrote[s] # ""
      /\ \A c \in Range(calls[s]) : c.read = fileWidget[s]
      /\ \A i \in {query_index_[s], windex[s], query_index[s]} :
           i \in {None, fileWidget[s]}
      /\ \A m \in Shown(s) : m.src = fileWidget[s] /\ m.src # prevFile[s]

\* C2 witness: a second upload's render has run the battery and answered the search
C2_Witness ==
  /\ trigger[SoloSession] = "upload"
  /\ prevFile[SoloSession] # None
  /\ prevFile[SoloSession] # fileWidget[SoloSession]
  /\ pc[SoloSession] = "done"
  /\ Populated(SoloSession) = TabNames
  /\ Len(calls[SoloSession]) = 3
  /\ answer[SoloSession] # NoAnswer

C4_FalsyFallback ==
  \A s \in Sessions :
    /\ answer[s] # NoAnswer =>
         /\ pc[s] = "done"
         /\ failedAt[s] = ""
         /\ IF answer[s].truthy
              THEN /\ answer_processing_container[s] = "Found results!"
                   /\ col2[s] = <<answer[s]>>
              ELSE /\ answer_processing_container[s] = "Processing request..."
                   /\ col2[s] = <<Literal("No answer found for your query.")>>
    /\ answer_processing_container[s] = "Found results!" => answer[s].truthy
    /\ (\E m \in Range(col2[s]) : m.q = session_state[s]) => answer[s].truthy

\* C4 witness: a search ended normally on a falsy answer, the fallback is shown
C4_Witness ==
  \E s \in Sessions :
    /\ answer[s] # NoAnswer
    /\ ~answer[s].truthy
    /\ pc[s] = "done"
    /\ col2[s] = <<Literal("No answer found for your query.")>>

\* C5: in a render with an uploaded file every create_index call and the parser
\* call get the very path the upload was written to in that render, and that
\* write was complete before the first of them
C5_PathWritten ==
  \A s \in Sessions :
    fileWidget[s] # None =>
      \A c \in Range(calls[s]) : wrote[s] # "" /\ c.path = wrote[s]

\* C5 witness: a render with a file has made all three index builds
C5_Witness ==
  \E s \in Sessions :
    /\ fileWidget[s] # None
    /\ Len(calls[s]) = 3
    /\ {c.by : c \in Range(calls[s])} =
         {"display_information_once", "wirkungsmatrix", "search"}

\* C6: while the status reads "Processing complete!" all six tabs are
\* populated, each with the answer to its own question, the Wirkungsmatrix tab
\* with the six impact-matrix answers in question order; a render with a file
\* that got past the battery reads "Processing complete!"
C6_CompleteAllTabs ==
  \A s \in Sessions :
    /\ processing_container[s] = "Processing complete!" =>
         /\ Populated(s) = TabNames
         /\ [i \in 1..Len(tabs[s]["Overview"]) |-> tabs[s]["Overview"][i].q]
              = <<"overview">>
         /\ [i \in 1..Len(tabs[s]["General Information"]) |->
              tabs[s]["General Information"][i].q] = <<"key_value">>
         /\ [i \in 1..Len(tabs[s]["Risk Analysis"]) |-> tabs[s]["Risk Analysis"][i].q]
              = <<"risk">>
         /\ [i \in 1..Len(tabs[s]["Wirkungsmatrix"]) |-> tabs[s]["Wirkungsmatrix"][i].q]
              = <<"w1", "w2", "w3", "w4", "w5", "w6">>
         /\ [i \in 1..Len(tabs[s]["Recommended Actions"]) |->
              tabs[s]["Recommended Actions"][i].q] = <<"next_steps">>
         /\ [i \in 1..Len(tabs[s]["Suggestions"]) |-> tabs[s]["Suggestions"][i].q]
              = <<"recommended_fields">>
    /\ (fileWidget[s] # None /\ pc[s] \in {"L255", "search", "user_query_answer", "done"})
         => processing_container[s] = "Processing complete!"

\* C6 witness: a render without failure has ended with "Processing complete!"
C6_Witness ==
  \E s \in Sessions :
    /\ processing_container[s] = "Processing complete!"
    /\ failedAt[s] = ""
    /\ pc[s] = "done"

\* the questions sent, and the number of tabs populated, when call f raises
IssuedAt(f) ==
  IF f = "create_index" THEN <<>>
  ELSE IF f = "wirkungsmatrix" THEN SubSeq(FixedOrder, 1, 3)
  ELSE SubSeq(FixedOrder, 1, CHOOSE k \in 1..Len(FixedOrder) : FixedOrder[k] = f)
TabsAt(f) ==
  CASE f \in {"create_index", "overview"} -> 0
    [] f = "key_value" -> 1
    [] f = "risk" -> 2
    [] f \in {"wirkungsmatrix", "w1", "w2", "w3", "w4", "w5", "w6"} -> 3
    [] f = "next_steps" -> 4
    [] f = "recommended_fields" -> 5
BatteryFailures == {"create_index", "wirkungsmatrix"} \cup Range(FixedOrder)

\* C8: once a call of the battery has raised, the render is over: no question
\* after the failing one has been sent, exactly the tabs populated before the
\* failure are populated, the status is not "Processing complete!", and the
\* search box path has not run
C8_FailureAborts ==
  \A s \in Sessions :
    failedAt[s] \in BatteryFailures =>
      /\ pc[s] = "crashed"
      /\ issued[s] = IssuedAt(failedAt[s])
      /\ Populated(s) = FirstTabs(TabsAt(failedAt[s]))
      /\ processing_container[s] # "Processing complete!"
      /\ SearchCalls(s) = {}
      /\ answer[s] = NoAnswer
      /\ answer_processing_container[s] = ""
      /\ col2[s] = <<>>

\* C8 witness: impact-matrix question 4 raised in a render with a search text
C8_Witness ==
  \E s \in Sessions :
    /\ failedAt[s] = "w4"
    /\ Populated(s) = FirstTabs(3)
    /\ session_state[s] # ""

\* C9 as stated: a render with a file and a search text builds one index only,
\* the one of the battery, and the search is answered from it
C9_IndexReused ==
  \A s \in Sessions :
    (fileWidget[s] # None /\ session_state[s] # "") =>
      Cardinality(CreateIndexCalls(s)) <= 1

\* C9 amended: a render with a file that answers the search has called
\* create_index exactly twice on the fixed path, first for the battery and then
\* for the search box, and the answer comes from the index built second
C9_SecondIndexBuilt ==
  \A s \in Sessions :
    (fileWidget[s] # None /\ answer[s] # NoAnswer) =>
      /\ Cardinality(CreateIndexCalls(s)) = 2
      /\ calls[s][1] = Call("create_index", "display_information_once",
                            "temp_file.pdf", calls[s][1].read)
      /\ calls[s][3] = Call("create_index", "search", "temp_file.pdf",
                            answer[s].src)
      /\ query_index_[s] = None

\* C9 witness: a render with a file has answered the search from its own upload
C9_Witness ==
  \E s \in Sessions :
    /\ fileWidget[s] # None
    /\ answer[s] # NoAnswer
    /\ answer[s].src = fileWidget[s]

\* C7: the index builds of a session's battery read the session's own upload
\* unless another session has written the shared path in between: what they
\* read instead always belongs to another session
C7_OnlyForeignOverwrite ==
  \A s \in Sessions :
    /\ \A c \in BatteryCalls(s) :
         c.read = fileWidget[s] \/ Owner(c.read) \in Sessions \ {s}
    /\ \A tab \in TabNames : \A m \in Range(tabs[s][tab]) :
         m.src = fileWidget[s] \/ Owner(m.src) \in Sessions \ {s}

\* C7: A has written its file, B has overwritten the path, and A's primary
\* index and Overview tab come from B's document
C7_RaceWitness ==
  /\ fileWidget["A"] \in DocsOf("A")
  /\ wrote["A"] # ""
  /\ \E c \in BatteryCalls("A") : c.by = "display_information_once" /\ c.read \in DocsOf("B")
  /\ \E m \in Range(tabs["A"]["Overview"]) : m.src \in DocsOf("B")

\* C10: every index build of the search box reads a document that the same
\* session has uploaded
C10_OwnDocumentOnly ==
  \A s \in Sessions :
    \A c \in SearchCalls(s) : c.read \in DocsOf(s)

=============================================================================
